---- MODULE Spec2Model ----
(***************************************************************************)
(* Model of the Yanductor backend (backend/yanductor/yanductor.go): the    *)
(* load-or-fallback orchestration New/Load/Reload over the cache file and  *)
(* the HTTP fetch, and the inventory parser parseData.                     *)
(*                                                                         *)
(* Bytes (an HTTP body, the cache file's content) are modelled as document *)
(* records: what json.Unmarshal yields for them, plus a formatting variant *)
(* fmt that the parser never looks at, so that two different byte strings  *)
(* can carry the same inventory.                                           *)
(***************************************************************************)
EXTENDS Naturals, Sequences, FiniteSets, TLC

VARIABLES
    alive,   \* TRUE once New() has returned an instance
    y,       \* the Yanductor instance's fields
    cache,   \* the cache file on disk: [exists, content, mtime]
    now,     \* the wall clock
    last     \* the call that has just returned: operation, inputs drawn, I/O trace,
             \* result; NoCall once the clock or the file system has moved on

vars == <<alive, y, cache, now, last>>

\* ---------------------------------------------------------------- bounds

MaxTime == 1
MaxTTL == 1

\* ------------------------------------------------------------- documents

S(x) == [isStr |-> TRUE, v |-> x]
NonStr == [isStr |-> FALSE, v |-> ""]
Grp(children, hosts) == [isMap |-> TRUE, children |-> children, hosts |-> hosts]
NotMap == [isMap |-> FALSE, children |-> <<>>, hosts |-> <<>>]
HV(dc) == [hasDc |-> TRUE, dc |-> dc]
NoDc == [hasDc |-> FALSE, dc |-> ""]
NoKeys == [k \in {} |-> ""]

Doc(fmt, meta, hostvars, groups) ==
    [kind |-> "object", fmt |-> fmt, meta |-> meta, hostvars |-> hostvars, groups |-> groups]

\* Bytes that json.Unmarshal rejects.
DocGarbage == [kind |-> "garbage", fmt |-> 0, meta |-> "absent", hostvars |-> NoKeys, groups |-> NoKeys]
\* What a failed os.WriteFile can leave behind: a truncated file.
DocTruncated == [kind |-> "garbage", fmt |-> 1, meta |-> "absent", hostvars |-> NoKeys, groups |-> NoKeys]
\* The JSON literal null: json.Unmarshal accepts it and leaves the map nil.
DocNull == [kind |-> "null", fmt |-> 0, meta |-> "absent", hostvars |-> NoKeys, groups |-> NoKeys]
\* A JSON object without "_meta".
DocNoMeta == Doc(0, "absent", NoKeys, ("g1" :> Grp(<<>>, <<S("a.x")>>)))
\* A JSON object whose "_meta" has no "hostvars".
DocNoHostvars == Doc(0, "nohostvars", NoKeys, ("g1" :> Grp(<<>>, <<S("a.x")>>)))
\* Scenario A of the specification.
DocA(fmt) ==
    Doc(fmt, "ok", ("a.x" :> HV("dc1")),
        ("g1" :> Grp(<<S("g2")>>, <<S("a.x")>>)) @@ ("g2" :> Grp(<<>>, <<>>)))
\* The same host listed twice in one group and again in another; a host without "dc".
DocDup ==
    Doc(0, "ok", ("a.x" :> HV("dc1")) @@ ("b.x" :> NoDc),
        ("g1" :> Grp(<<>>, <<S("a.x"), S("a.x")>>)) @@ ("g2" :> Grp(<<>>, <<S("b.x"), S("a.x")>>)))
\* A child declared under two parents; entries of unexpected shape; an unknown host.
DocTwoParents ==
    Doc(0, "ok", ("b.x" :> HV("dc2")),
        ("g1" :> Grp(<<S("g3")>>, <<>>)) @@ ("g2" :> Grp(<<NonStr, S("g3")>>, <<NonStr>>))
        @@ ("g3" :> Grp(<<>>, <<S("c.x"), S("b.x")>>)))

\* The bodies the service answers with and the contents the cache file starts with.
Docs == {DocGarbage, DocNoMeta, DocA(0), DocA(1), DocDup}

\* The documents the parser alone is run on: every assignment of one of four group
\* descriptors to three group names over one hostvars table, and the documents above.
GroupNames == {"g1", "g2", "g3"}
GroupDescriptors ==
    { Grp(<<S("g3")>>, <<S("a.x")>>),
      Grp(<<NonStr, S("g3"), S("g2")>>, <<NonStr, S("c.x"), S("b.x")>>),
      Grp(<<>>, <<S("d.x"), S("a.x")>>),
      NotMap }
GenHostvars == ("a.x" :> HV("dc1")) @@ ("b.x" :> NoDc) @@ ("d.x" :> HV("dc1"))
ParseDocs ==
    {Doc(0, "ok", GenHostvars, g) : g \in [GroupNames -> GroupDescriptors]}
    \cup {DocGarbage, DocNull, DocNoMeta, DocNoHostvars, DocA(0), DocDup, DocTwoParents}

\* The orders in which a Go map with key set K can be ranged over.
Orders(K) ==
    {o \in [1..Cardinality(K) -> K] : \A i, j \in 1..Cardinality(K) : i # j => o[i] # o[j]}

\* ---------------------------------------------------------------- parser

Lookup(m, k) == IF k \in DOMAIN m THEN m[k] ELSE ""

\* Mutant: only the entry added last is compared.
containsLast(slice, item) == Len(slice) > 0 /\ slice[Len(slice)].Name = item

contains(slice, item) == \E i \in 1..Len(slice) : slice[i].Name = item

\* Mutant: a later declaration of a child replaces the parent recorded for it.
RECURSIVE addChildrenLastWins(_, _, _, _)
addChildrenLastWins(pm, group, children, i) ==
    IF i > Len(children) THEN pm
    ELSE LET child == children[i]
             pm2 == IF child.isStr
                    THEN [k \in DOMAIN pm \cup {child.v} |->
                             IF k = child.v THEN group ELSE pm[k]]
                    ELSE pm
         IN  addChildrenLastWins(pm2, group, children, i + 1)

\* The loop over a group's "children": the first parent recorded for a child stays.
RECURSIVE addChildren(_, _, _, _)
addChildren(pm, group, children, i) ==
    IF i > Len(children) THEN pm
    ELSE LET child == children[i]
             pm2 == IF child.isStr /\ child.v \notin DOMAIN pm
                    THEN pm @@ (child.v :> group) ELSE pm
         IN  addChildren(pm2, group, children, i + 1)

\* Mutant: a host without a hostvars entry gets a record with an empty datacenter.
RECURSIVE addHostsKeepsUnknown(_, _, _, _, _)
addHostsKeepsUnknown(acc, group, hosts, hostvars, i) ==
    IF i > Len(hosts) THEN acc
    ELSE LET host == hosts[i] IN
         IF ~host.isStr
         THEN addHostsKeepsUnknown(acc, group, hosts, hostvars, i + 1)
         ELSE LET dc == IF host.v \in DOMAIN hostvars /\ hostvars[host.v].hasDc
                        THEN hostvars[host.v].dc ELSE ""
                  hostObj == [FQDN |-> host.v, GroupID |-> group, DatacenterID |-> dc]
                  acc2 == [hosts |-> Append(acc.hosts, hostObj),
                           ghosts |-> Append(acc.ghosts, hostObj),
                           datacenters |-> IF contains(acc.datacenters, dc)
                                           THEN acc.datacenters
                                           ELSE Append(acc.datacenters, [Name |-> dc])]
              IN  addHostsKeepsUnknown(acc2, group, hosts, hostvars, i + 1)

\* The loop over a group's "hosts". acc = [hosts, ghosts, datacenters]: the flat host
\* list, the group's own Hosts, the datacenter list.
RECURSIVE addHosts(_, _, _, _, _)
addHosts(acc, group, hosts, hostvars, i) ==
    IF i > Len(hosts) THEN acc
    ELSE LET host == hosts[i] IN
         IF ~host.isStr \/ host.v \notin DOMAIN hostvars
         THEN addHosts(acc, group, hosts, hostvars, i + 1)
         ELSE LET hostInfo == hostvars[host.v]
                  dc == IF hostInfo.hasDc THEN hostInfo.dc ELSE ""
                  hostObj == [FQDN |-> host.v, GroupID |-> group, DatacenterID |-> dc]
                  acc2 == [hosts |-> Append(acc.hosts, hostObj),
                           ghosts |-> Append(acc.ghosts, hostObj),
                           datacenters |-> IF contains(acc.datacenters, dc)
                                           THEN acc.datacenters
                                           ELSE Append(acc.datacenters, [Name |-> dc])]
              IN  addHosts(acc2, group, hosts, hostvars, i + 1)

\* Mutant: the Group record is built without its Hosts back-references.
parseGroupNoBackref(st, group, groupData, hostvars) ==
    IF ~groupData.isMap THEN st
    ELSE LET pm == addChildren(st.parentMap, group, groupData.children, 1)
             acc == addHosts([hosts |-> st.hosts, ghosts |-> <<>>,
                              datacenters |-> st.datacenters],
                             group, groupData.hosts, hostvars, 1)
         IN  [st EXCEPT !.parentMap = pm,
                        !.groups = Append(st.groups,
                            [Name |-> group, ParentID |-> Lookup(pm, group),
                             Hosts |-> <<>>]),
                        !.hosts = acc.hosts,
                        !.datacenters = acc.datacenters]

\* The body of the loop over the top-level keys, for one group key.
parseGroup(st, group, groupData, hostvars) ==
    IF ~groupData.isMap THEN st
    ELSE LET pm == addChildren(st.parentMap, group, groupData.children, 1)
             acc == addHosts([hosts |-> st.hosts, ghosts |-> <<>>,
                              datacenters |-> st.datacenters],
                             group, groupData.hosts, hostvars, 1)
         IN  [st EXCEPT !.parentMap = pm,
                        !.groups = Append(st.groups,
                            [Name |-> group, ParentID |-> Lookup(pm, group),
                             Hosts |-> acc.ghosts]),
                        !.hosts = acc.hosts,
                        !.datacenters = acc.datacenters]

\* The loop over the top-level keys, ranged over in the given order.
RECURSIVE parseLoop(_, _, _, _)
parseLoop(st, data, order, i) ==
    IF i > Len(order) THEN st
    ELSE parseLoop(parseGroup(st, order[i], data.groups[order[i]], data.hostvars),
                   data, order, i + 1)

\* The error parseData returns for a document ("" is nil): json.Unmarshal's for
\* anything but an object or null, then the missing section's.
parseError(data) ==
    IF data.kind \notin {"object", "null"} THEN "json"
    ELSE IF data.meta = "absent" THEN "meta"
    ELSE IF data.meta = "nohostvars" THEN "hostvars"
    ELSE ""

\* Mutant: a successful parse fills the workgroup list from the configured names.
parseDataFillsWorkgroups(yy, data, order) ==
    IF parseError(data) = "json" THEN [y |-> yy, err |-> "json"]
    ELSE LET reset == [yy EXCEPT !.hosts = <<>>, !.groups = <<>>,
                                 !.datacenters = <<>>, !.parentMap = NoKeys]
         IN  IF parseError(data) # "" THEN [y |-> reset, err |-> parseError(data)]
             ELSE LET st == parseLoop(reset, data, order, 1)
                  IN  [y |-> [st EXCEPT !.workgroups =
                                   [i \in 1..Len(yy.workgroupNames) |->
                                        [Name |-> yy.workgroupNames[i]]]],
                       err |-> ""]

\* Mutant: the required sections are looked for before the collections are reset.
parseDataChecksFirst(yy, data, order) ==
    IF parseError(data) # "" THEN [y |-> yy, err |-> parseError(data)]
    ELSE LET reset == [yy EXCEPT !.hosts = <<>>, !.groups = <<>>,
                                 !.datacenters = <<>>, !.parentMap = NoKeys]
             st == parseLoop(reset, data, order, 1)
         IN  [y |-> st, err |-> ""]

\* Mutant: the datacenter list is not reset with the other collections.
parseDataKeepsDatacenters(yy, data, order) ==
    IF parseError(data) = "json" THEN [y |-> yy, err |-> "json"]
    ELSE LET reset == [yy EXCEPT !.hosts = <<>>, !.groups = <<>>, !.parentMap = NoKeys]
         IN  IF parseError(data) # "" THEN [y |-> reset, err |-> parseError(data)]
             ELSE LET st == parseLoop(reset, data, order, 1)
                  IN  [y |-> st, err |-> ""]

\* parseData: the instance after the call and the error returned.
parseData(yy, data, order) ==
    IF parseError(data) = "json" THEN [y |-> yy, err |-> "json"]
    ELSE LET reset == [yy EXCEPT !.hosts = <<>>, !.groups = <<>>,
                                 !.datacenters = <<>>, !.parentMap = NoKeys]
         IN  IF parseError(data) # "" THEN [y |-> reset, err |-> parseError(data)]
             ELSE LET st == parseLoop(reset, data, order, 1)
                  IN  [y |-> st, err |-> ""]

\* The results a parse of data can have, over the orders its keys can be ranged in.
parses(yy, data) == {parseData(yy, data, o) : o \in Orders(DOMAIN data.groups)}

\* ----------------------------------------------------------- cache, fetch

NoCache == [exists |-> FALSE, content |-> DocGarbage, mtime |-> 0]
File(data, t) == [exists |-> TRUE, content |-> data, mtime |-> t]

\* One call's outcome: the instance and the cache file after it, the error returned
\* ("" is nil), the I/O done in order, and the fetch's result and body.
Outcome(yy, c, err, io, fetch, body) ==
    [y |-> yy, cache |-> c, err |-> err, io |-> io, fetch |-> fetch, body |-> body]

\* Mutant: the cache counts as expired from the instant its TTL has run out.
cacheExpiredAtDeadline(yy, c, t, statErr) ==
    IF statErr = "perm" THEN FALSE
    ELSE IF ~c.exists THEN TRUE
    ELSE c.mtime + yy.cacheTTL <= t

\* cacheExpired, for what os.Stat answers: "perm" is an error other than not-exist.
cacheExpired(yy, c, t, statErr) ==
    IF statErr = "perm" THEN FALSE
    ELSE IF ~c.exists THEN TRUE
    ELSE c.mtime + yy.cacheTTL < t

\* Mutant: the collections are reset before the file is read.
loadLocalResetFirst(yy, c) ==
    LET reset == [yy EXCEPT !.hosts = <<>>, !.groups = <<>>,
                            !.datacenters = <<>>, !.parentMap = NoKeys]
    IN  {Outcome(reset, c, "read", <<"read!">>, "none", DocGarbage)}
        \cup (IF c.exists
              THEN {Outcome(p.y, c, p.err, <<"read">>, "none", DocGarbage) :
                        p \in parses(yy, c.content)}
              ELSE {})

\* loadLocal: os.ReadFile fails (always, when the file is missing), or the content
\* is parsed. In the I/O trace a failed step carries a "!".
loadLocal(yy, c) ==
    {Outcome(yy, c, "read", <<"read!">>, "none", DocGarbage)}
    \cup (IF c.exists
          THEN {Outcome(p.y, c, p.err, <<"read">>, "none", DocGarbage) :
                    p \in parses(yy, c.content)}
          ELSE {})

\* Mutant: the file gets the document in its canonical formatting, not the bytes.
saveCacheReserialized(c, data, t) ==
    { [cache |-> c, err |-> "mkdir", io |-> <<"mkdir!">>],
      [cache |-> File([data EXCEPT !.fmt = 0], t), err |-> "", io |-> <<"mkdir", "write">>],
      [cache |-> c, err |-> "write", io |-> <<"mkdir", "write!">>],
      [cache |-> File(DocTruncated, t), err |-> "write", io |-> <<"mkdir", "write!">>] }

\* saveCache: MkdirAll fails; WriteFile succeeds; WriteFile fails before or after it
\* truncated the file.
saveCache(c, data, t) ==
    { [cache |-> c, err |-> "mkdir", io |-> <<"mkdir!">>],
      [cache |-> File(data, t), err |-> "", io |-> <<"mkdir", "write">>],
      [cache |-> c, err |-> "write", io |-> <<"mkdir", "write!">>],
      [cache |-> File(DocTruncated, t), err |-> "write", io |-> <<"mkdir", "write!">>] }

FetchFailures == {"transport", "status", "body"}

\* Mutant: the body is saved before it is parsed.
loadRemoteSavesFirst(yy, c, t) ==
    {Outcome(yy, c, f, <<"get!">>, f, DocGarbage) : f \in FetchFailures}
    \cup UNION { UNION { IF s.err # ""
                         THEN {Outcome(yy, s.cache, s.err, <<"get">> \o s.io, "ok", data)}
                         ELSE {Outcome(p.y, s.cache, p.err, <<"get">> \o s.io, "ok", data) :
                                   p \in parses(yy, data)}
                         : s \in saveCache(c, data, t) }
                 : data \in Docs }

\* loadRemote: http.Get fails, the status is not 200, io.ReadAll fails, or the body
\* is parsed and, if that succeeded, saved.
loadRemote(yy, c, t) ==
    {Outcome(yy, c, f, <<"get!">>, f, DocGarbage) : f \in FetchFailures}
    \cup UNION { UNION { IF p.err # ""
                         THEN {Outcome(p.y, c, p.err, <<"get">>, "ok", data)}
                         ELSE {Outcome(p.y, s.cache, s.err, <<"get">> \o s.io, "ok", data) :
                                   s \in saveCache(c, data, t)}
                         : p \in parses(yy, data) }
                 : data \in Docs }

\* Mutant: the local cache is tried first and the fetch is the fallback.
ReloadLocalFirst(yy, c, t) ==
    UNION { IF l.err # ""
            THEN {Outcome(r.y, r.cache, r.err, l.io \o r.io, r.fetch, r.body) :
                      r \in loadRemote(l.y, l.cache, t)}
            ELSE {l}
            : l \in loadLocal(yy, c) }

\* Mutant: the error of loadRemote is returned, with no fallback.
ReloadNoFallback(yy, c, t) == loadRemote(yy, c, t)

\* Reload: loadRemote, and on any error of it loadLocal.
Reload(yy, c, t) ==
    UNION { IF r.err # ""
            THEN {Outcome(l.y, l.cache, l.err, r.io \o l.io, r.fetch, r.body) :
                      l \in loadLocal(r.y, r.cache)}
            ELSE {r}
            : r \in loadRemote(yy, c, t) }

\* Load: Reload if cacheExpired, else loadLocal.
Load(yy, c, t) ==
    UNION { LET rs == IF cacheExpired(yy, c, t, statErr) THEN Reload(yy, c, t)
                      ELSE loadLocal(yy, c)
            IN  {[r EXCEPT !.io = <<IF statErr = "perm" THEN "stat!" ELSE "stat">> \o r.io] :
                     r \in rs}
            : statErr \in {"none", "perm"} }

\* ---------------------------------------------------------- construction

ZeroY ==
    [cacheTTL |-> 0, workgroupNames |-> <<>>, apiURL |-> "",
     hosts |-> <<>>, groups |-> <<>>, workgroups |-> <<>>, datacenters |-> <<>>,
     parentMap |-> NoKeys]

\* cfg.BackendCfg.Options: any subset of the two keys, each empty or set. The
\* work_groups value holds one name and no comma, so the split yields that name.
OptionKeys == {"work_groups", "url"}
OptionValues == [work_groups |-> {"", "prj"}, url |-> {"", "http://c"}]
Options ==
    UNION { {o \in [K -> {"", "prj", "http://c"}] : \A k \in K : o[k] \in OptionValues[k]} :
            K \in SUBSET OptionKeys }
NoOptions == [k \in {} |-> ""]

\* New: the configuration errors, then Load; nil is returned when Load fails.
New(ttl, options, c, t) ==
    IF "work_groups" \notin DOMAIN options \/ options["work_groups"] = ""
    THEN {[alive |-> FALSE, out |-> Outcome(ZeroY, c, "config:work_groups", <<>>, "none", DocGarbage)]}
    ELSE IF "url" \notin DOMAIN options
    THEN {[alive |-> FALSE, out |-> Outcome(ZeroY, c, "config:url", <<>>, "none", DocGarbage)]}
    ELSE LET y0 == [ZeroY EXCEPT !.cacheTTL = ttl,
                                 !.workgroupNames = <<options["work_groups"]>>,
                                 !.apiURL = options["url"]]
         IN  {IF r.err # "" THEN [alive |-> FALSE, out |-> [r EXCEPT !.y = ZeroY]]
              ELSE [alive |-> TRUE, out |-> r] : r \in Load(y0, c, t)}

\* ---------------------------------------------------------------- actions

\* The WorkGroups accessor.
WorkGroups(yy) == yy.workgroups

Collections(yy) == <<yy.hosts, yy.groups, yy.datacenters>>

\* What is recorded of a call: the operation and its options, the error returned,
\* the I/O trace, the fetch's result and body, and what an observer of the call sees
\* of the state it started in (pre) and of what it left alone (same).
Call(op, ttl, options, r) ==
    [op |-> op, options |-> options, err |-> r.err, io |-> r.io,
     fetch |-> r.fetch, body |-> r.body,
     pre |-> [exists |-> cache.exists,
              valid |-> cache.exists /\ parseError(cache.content) = "",
              fresh |-> cache.exists /\ ~(cache.mtime + ttl < now)],
     same |-> [y |-> Collections(r.y) = Collections(y), cache |-> r.cache = cache]]

NoCall ==
    [op |-> "none", options |-> NoOptions, err |-> "", io |-> <<>>,
     fetch |-> "none", body |-> DocGarbage,
     pre |-> [exists |-> FALSE, valid |-> FALSE, fresh |-> FALSE],
     same |-> [y |-> TRUE, cache |-> TRUE]]

Init ==
    /\ alive = FALSE
    /\ y = ZeroY
    /\ cache \in {NoCache} \cup {File(d, 0) : d \in Docs}
    /\ now = 0
    /\ last = NoCall

DoNew ==
    /\ ~alive
    /\ \E ttl \in 0..MaxTTL, options \in Options :
         \E n \in New(ttl, options, cache, now) :
            /\ alive' = n.alive
            /\ y' = n.out.y
            /\ cache' = n.out.cache
            /\ last' = Call("New", ttl, options, n.out)
    /\ UNCHANGED now

DoLoad ==
    /\ alive
    /\ \E r \in Load(y, cache, now) :
         /\ y' = r.y
         /\ cache' = r.cache
         /\ last' = Call("Load", y.cacheTTL, NoOptions, r)
    /\ UNCHANGED <<alive, now>>

DoReload ==
    /\ alive
    /\ \E r \in Reload(y, cache, now) :
         /\ y' = r.y
         /\ cache' = r.cache
         /\ last' = Call("Reload", y.cacheTTL, NoOptions, r)
    /\ UNCHANGED <<alive, now>>

Tick ==
    /\ now < MaxTime
    /\ now' = now + 1
    /\ last' = NoCall
    /\ UNCHANGED <<alive, y, cache>>

\* The cache file goes away between calls (os.Stat then answers not-exist).
CacheRemoved ==
    /\ cache.exists
    /\ cache' = NoCache
    /\ last' = NoCall
    /\ UNCHANGED <<alive, y, now>>

Next == DoNew \/ DoLoad \/ DoReload \/ Tick \/ CacheRemoved

Spec == Init /\ [][Next]_vars

\* ------------------------------------------------------- the parser alone

\* parseData applied, again and again, to an instance that starts empty: any
\* document of ParseDocs, its keys ranged over in any order.
InitParse ==
    /\ alive = TRUE
    /\ y = [ZeroY EXCEPT !.workgroupNames = <<"prj">>, !.apiURL = "http://c"]
    /\ cache = NoCache
    /\ now = 0
    /\ last = NoCall

DoParse ==
    /\ \E data \in ParseDocs :
         \E order \in Orders(DOMAIN data.groups) :
            LET p == parseData(y, data, order)
            IN  /\ y' = p.y
                /\ last' = [NoCall EXCEPT !.op = "parseData", !.err = p.err,
                                          !.body = data,
                                          !.same.y = (Collections(p.y) = Collections(y))]
    /\ UNCHANGED <<alive, cache, now>>

NextParse == DoParse

ParseSpec == InitParse /\ [][NextParse]_vars

\* ----------------------------------------------------------------- claims

IsCall == last.op \in {"New", "Load", "Reload", "parseData"}
Has(io, ev) == \E i \in 1..Len(io) : io[i] = ev
Fetched(io) == Has(io, "get") \/ Has(io, "get!")
ReadLocal(io) == Has(io, "read") \/ Has(io, "read!")
\* The collections are what a parse of data alone gives, in some order of its keys.
FromDocument(yy, data) == Collections(yy) \in {Collections(p.y) : p \in parses(ZeroY, data)}

\* C1: a Reload whose fetch succeeded and whose body does not parse returns that
\* parse error and never reads the local cache.
C1_ParseFailureNoFallback ==
    (last.op = "Reload" /\ last.fetch = "ok" /\ parseError(last.body) # "")
        => (last.err = parseError(last.body) /\ ~ReadLocal(last.io))

\* C2: a Reload whose fetch succeeded and whose body parses returns success with the
\* collections parsed from the body, whatever the cache write did, and never reads
\* the local cache.
C2_WriteFailureNonFatal ==
    (last.op = "Reload" /\ last.fetch = "ok" /\ parseError(last.body) = "")
        => (last.err = "" /\ FromDocument(y, last.body) /\ ~ReadLocal(last.io))

\* C3: when the fetch fails and the cache file holds a valid document (and can be
\* read), Load and Reload succeed, the collections are those parsed from the cache
\* file whatever its age, and the cache file is as it was.
C3_FallbackServesCache ==
    (last.op \in {"Load", "Reload"} /\ last.fetch \in FetchFailures
        /\ last.pre.valid /\ ~Has(last.io, "read!"))
        => (last.err = "" /\ last.same.cache /\ FromDocument(y, cache.content))

C3_Witness ==
    /\ last.op = "Load" /\ last.fetch = "status"
    /\ last.pre.valid /\ ~last.pre.fresh
    /\ last.io = <<"stat", "get!", "read">>
    /\ last.err = "" /\ y.hosts # <<>> /\ ~last.same.y

\* C4: when the fetch fails and there is no cache file, Load and Reload return an
\* error and leave the collections as they were, and New returns no instance.
C4_NoCacheNoData ==
    (IsCall /\ last.fetch \in FetchFailures /\ ~last.pre.exists)
        => /\ last.err # ""
           /\ last.op \in {"Load", "Reload"} => last.same.y
           /\ last.op = "New" => ~alive

C4_Witness ==
    /\ last.op = "Reload" /\ last.fetch = "status" /\ ~last.pre.exists
    /\ last.err = "read" /\ y.hosts # <<>> /\ y.groups # <<>>

\* C5: a stat error other than not-found makes Load go to Reload and fetch.
C5_StatErrorNotFresh ==
    (last.op = "Load" /\ last.io[1] = "stat!") => Fetched(last.io)

\* C6: a Load that finds the cache file present and within its TTL issues no HTTP
\* request; its result is that of reading and parsing the cache file, whose failure
\* is the error returned.
C6_FreshCacheNoFetch ==
    (last.op = "Load" /\ last.pre.fresh)
        => /\ ~Fetched(last.io) /\ last.fetch = "none"
           /\ Len(last.io) = 2 /\ last.io[2] \in {"read", "read!"}
           /\ last.same.cache
           /\ last.io[2] = "read!" => (last.err = "read" /\ last.same.y)
           /\ last.io[2] = "read" =>
                /\ last.err = parseError(cache.content)
                /\ last.err = "" => FromDocument(y, cache.content)

C6_Witness ==
    /\ last.op = "Load" /\ last.pre.fresh /\ y.cacheTTL = 1 /\ now > cache.mtime
    /\ last.io = <<"stat", "read">> /\ last.err = "json"

\* C7: after a successful parse every Group's ParentID is what the completed
\* ParentMap holds for its name.
C7_ParentFromCompletedMap ==
    (IsCall /\ last.err = "")
        => \A i \in 1..Len(y.groups) :
              y.groups[i].ParentID = Lookup(y.parentMap, y.groups[i].Name)

\* C8: after a successful parse no FQDN occurs twice in the flat host collection.
C8_HostsUnique ==
    (IsCall /\ last.err = "")
        => \A i, j \in 1..Len(y.hosts) : y.hosts[i].FQDN = y.hosts[j].FQDN => i = j

\* C9: New fails with a configuration error before any file or network access when
\* "url" or "work_groups" is missing or empty.
C9_ConfigErrorBeforeIO ==
    (last.op = "New" /\ \E k \in OptionKeys :
                            k \notin DOMAIN last.options \/ last.options[k] = "")
        => (last.err \in {"config:work_groups", "config:url"} /\ last.io = <<>>)

\* C10: when a call fetched bytes and persisted them, the cache file's content is the
\* fetched body, byte for byte.
C10_CacheHoldsFetchedBytes ==
    (IsCall /\ last.fetch = "ok" /\ Has(last.io, "write"))
        => (cache.exists /\ cache.content = last.body)

C10_Witness ==
    /\ last.op = "Reload" /\ last.fetch = "ok" /\ Has(last.io, "write")
    /\ last.body = DocA(1) /\ cache.content = DocA(1) /\ last.pre.exists

\* C11: at every return from Load or Reload the three collections are together
\* unchanged, or together empty, or together the parse of one document: the body
\* fetched in the call or the cache file read in it.
AllEmpty(yy) == Collections(yy) = <<<<>>, <<>>, <<>>>>

C11_NoMixedCollections ==
    last.op \in {"Load", "Reload"}
        => \/ last.same.y
           \/ AllEmpty(y)
           \/ last.fetch = "ok" /\ FromDocument(y, last.body)
           \/ Has(last.io, "read") /\ cache.exists /\ FromDocument(y, cache.content)

C11_Witness ==
    /\ last.op = "Reload" /\ last.fetch = "ok" /\ last.body = DocNoMeta
    /\ last.io = <<"get", "read!">> /\ last.err = "read"
    /\ AllEmpty(y) /\ ~last.same.y

\* C12: after a successful parse the Datacenter collection is the sequence of the
\* distinct DatacenterID values of the flat host collection, in order of first
\* occurrence.
RECURSIVE FirstOccurrences(_, _, _)
FirstOccurrences(hosts, i, acc) ==
    IF i > Len(hosts) THEN acc
    ELSE FirstOccurrences(hosts, i + 1,
            IF \E k \in 1..Len(acc) : acc[k] = hosts[i].DatacenterID THEN acc
            ELSE Append(acc, hosts[i].DatacenterID))

C12_DatacentersDistinctInOrder ==
    (IsCall /\ last.err = "")
        => /\ [i \in 1..Len(y.datacenters) |-> y.datacenters[i].Name]
                = FirstOccurrences(y.hosts, 1, <<>>)
           /\ \A i, j \in 1..Len(y.datacenters) :
                y.datacenters[i].Name = y.datacenters[j].Name => i = j

C12_Witness ==
    /\ last.op = "parseData" /\ last.err = "" /\ ~last.same.y
    /\ Len(y.hosts) = 5 /\ Len(y.datacenters) = 2
    /\ y.datacenters[1].Name = "" /\ y.datacenters[2].Name = "dc1"

\* C13: every Host's DatacenterID is the "dc" of its hostvars entry, or "" when the
\* entry has none; a listed name without a hostvars entry gets no Host record and
\* the parse still succeeds.
ListsUnknownHost(data) ==
    \E g \in DOMAIN data.groups : \E i \in 1..Len(data.groups[g].hosts) :
        /\ data.groups[g].hosts[i].isStr
        /\ data.groups[g].hosts[i].v \notin DOMAIN data.hostvars

C13_DatacenterFromHostvars ==
    (last.op = "parseData" /\ parseError(last.body) = "")
        => /\ last.err = ""
           /\ \A i \in 1..Len(y.hosts) :
                LET h == y.hosts[i] IN
                /\ h.FQDN \in DOMAIN last.body.hostvars
                /\ h.DatacenterID = IF last.body.hostvars[h.FQDN].hasDc
                                    THEN last.body.hostvars[h.FQDN].dc ELSE ""

C13_Witness ==
    /\ last.op = "parseData" /\ last.err = "" /\ ListsUnknownHost(last.body)
    /\ \E i, j \in 1..Len(y.hosts) :
          /\ y.hosts[i].FQDN = "b.x" /\ y.hosts[i].DatacenterID = ""
          /\ y.hosts[j].FQDN = "a.x" /\ y.hosts[j].DatacenterID = "dc1"

\* C14: the WorkGroup collection is empty in every reachable state.
C14_WorkGroupsEmpty == WorkGroups(y) = <<>>

C14_Witness ==
    /\ alive /\ last.op = "Reload" /\ last.err = "" /\ last.fetch = "ok"
    /\ y.workgroupNames = <<"prj">> /\ y.hosts # <<>> /\ WorkGroups(y) = <<>>

\* C15, as claimed: a failed parse of a JSON object leaves the three collections
\* empty; a failed parse of bytes that are not a JSON object leaves them as they were.
C15_NotAnObjectKeepsState ==
    (last.op = "parseData" /\ last.err # "")
        => /\ last.body.kind = "object" => AllEmpty(y)
           /\ last.body.kind # "object" => last.same.y

\* C15, amended: a parse that fails for a missing "_meta" or "hostvars" leaves the
\* three collections empty, and so does the JSON literal null; a parse that fails
\* because json.Unmarshal rejects the bytes leaves them as they were.
C15_FailedParseState ==
    last.op = "parseData"
        => /\ last.err \in {"meta", "hostvars"} => AllEmpty(y)
           /\ last.body = DocNull => (last.err = "meta" /\ AllEmpty(y))
           /\ last.err = "json" => (last.body.kind = "garbage" /\ last.same.y)

C15_Witness ==
    /\ last.op = "parseData" /\ last.err = "hostvars" /\ last.body = DocNoHostvars
    /\ AllEmpty(y) /\ ~last.same.y

\* C16: a Reload issues exactly one GET, before any read of the cache file; no call
\* issues more than one GET or reads the cache file more than once.
RECURSIVE Count(_, _)
Count(io, evs) ==
    IF io = <<>> THEN 0
    ELSE (IF Head(io) \in evs THEN 1 ELSE 0) + Count(Tail(io), evs)

C16_OneGetOneRead ==
    /\ last.op = "Reload" =>
          /\ Count(last.io, {"get", "get!"}) = 1
          /\ last.io[1] \in {"get", "get!"}
    /\ last.op \in {"New", "Load", "Reload"} =>
          /\ Count(last.io, {"get", "get!"}) <= 1
          /\ Count(last.io, {"read", "read!"}) <= 1
          /\ \A i, j \in 1..Len(last.io) :
                (last.io[i] \in {"get", "get!"} /\ last.io[j] \in {"read", "read!"}) => i < j

C16_Witness ==
    /\ last.op = "Reload" /\ last.io = <<"get", "mkdir", "write!", "read">>
    /\ last.err = "json"

\* C17: within one parse a parent recorded for a child is never replaced as further
\* groups are visited, and every ParentMap[child] = p at the end is a declaration of
\* the document: p lists child among its "children".
MapAfter(yy, data, order, n) == parseLoop(yy, data, SubSeq(order, 1, n), 1).parentMap

Declares(data, p, child) ==
    /\ p \in DOMAIN data.groups
    /\ data.groups[p].isMap
    /\ \E i \in 1..Len(data.groups[p].children) : data.groups[p].children[i] = S(child)

C17_FirstParentWins ==
    (last.op = "parseData" /\ last.err = "")
        => /\ \E o \in Orders(DOMAIN last.body.groups) :
                /\ y.parentMap = MapAfter(ZeroY, last.body, o, Len(o))
                /\ \A n \in 0..(Len(o) - 1) :
                      LET before == MapAfter(ZeroY, last.body, o, n)
                          after == MapAfter(ZeroY, last.body, o, n + 1)
                      IN  \A c \in DOMAIN before :
                             c \in DOMAIN after /\ after[c] = before[c]
           /\ \A c \in DOMAIN y.parentMap : Declares(last.body, y.parentMap[c], c)

C17_Witness ==
    /\ last.op = "parseData" /\ last.err = "" /\ last.body = DocTwoParents
    /\ y.parentMap = ("g3" :> "g2")
    /\ y.groups[1].Name = "g2" /\ y.groups[2].Name = "g1"

\* C18: parsing is independent of the order the top-level keys are ranged over: any
\* other order gives the same set of Host records and the same set of Groups with
\* their ParentID.
HostSet(yy) == {yy.hosts[i] : i \in 1..Len(yy.hosts)}
GroupSet(yy) == {<<yy.groups[i].Name, yy.groups[i].ParentID>> : i \in 1..Len(yy.groups)}

C18_OrderIndependent ==
    (last.op = "parseData" /\ last.err = "")
        => \A o \in Orders(DOMAIN last.body.groups) :
              LET p == parseData(y, last.body, o).y
              IN  HostSet(p) = HostSet(y) /\ GroupSet(p) = GroupSet(y)

\* C19: the cache file is written at most once per call and only after a fetch
\* that succeeded and a body that parsed; a body that failed to parse is never
\* persisted, and a call that does not reach the write leaves the file as it was.
C19_CacheWrittenOnlyAfterParse ==
    last.op \in {"New", "Load", "Reload"}
        => /\ Count(last.io, {"write", "write!"}) <= 1
           /\ (Has(last.io, "write") \/ Has(last.io, "write!"))
                 => (last.fetch = "ok" /\ parseError(last.body) = "")
           /\ ~(Has(last.io, "write") \/ Has(last.io, "write!")) => last.same.cache
           /\ ~last.same.cache => (cache.exists /\ cache.content \in {last.body, DocTruncated})
           /\ (last.fetch = "ok" /\ parseError(last.body) # "") => last.same.cache

C19_Witness ==
    /\ last.op = "Reload" /\ last.fetch = "ok" /\ last.body = DocGarbage
    /\ last.io = <<"get", "read">> /\ last.err = ""
    /\ last.pre.valid /\ last.same.cache /\ cache.content # last.body

\* C20: after a successful parse every Host's GroupID names exactly one Group, that
\* Group's Hosts holds the Host, every entry of a Group's Hosts is in the flat host
\* collection, and no two Groups share a Name.
C20_HostsAndGroupsConsistent ==
    (last.op = "parseData" /\ last.err = "")
        => /\ \A i \in 1..Len(y.hosts) :
                /\ Cardinality({k \in 1..Len(y.groups) :
                                   y.groups[k].Name = y.hosts[i].GroupID}) = 1
                /\ \A k \in 1..Len(y.groups) :
                      y.groups[k].Name = y.hosts[i].GroupID
                          => \E m \in 1..Len(y.groups[k].Hosts) :
                                y.groups[k].Hosts[m] = y.hosts[i]
           /\ \A k \in 1..Len(y.groups) : \A m \in 1..Len(y.groups[k].Hosts) :
                /\ y.groups[k].Hosts[m] \in HostSet(y)
                /\ y.groups[k].Hosts[m].GroupID = y.groups[k].Name
           /\ \A k, m \in 1..Len(y.groups) : y.groups[k].Name = y.groups[m].Name => k = m

C20_Witness ==
    /\ last.op = "parseData" /\ last.err = "" /\ ~last.same.y
    /\ Len(y.groups) = 3 /\ Len(y.hosts) = 4
    /\ \A k \in 1..3 : y.groups[k].Hosts # <<>>

====
